---- MODULE Spec2Model ----
(***************************************************************************)
(* Birmingham Neighbourhood Sustainability Index dashboard.                *)
(*                                                                         *)
(* The module models the React front end (useBaselineData, NSIDashboard,   *)
(* the score classifiers of BaselineDashboard.jsx and App.jsx) and the     *)
(* composite scorer of the scoring pipeline that produces the baseline     *)
(* file the front end reads.                                               *)
(*                                                                         *)
(* Numbers.  A JavaScript number is modelled as a fixed-point integer      *)
(* counted in units of 1/Scale of a score point, so that 85 points is      *)
(* 85 * Scale and "just below 85" is 85 * Scale - 1.  Scale is a multiple  *)
(* of 3 and of 10, so the mean of three whole-point scores and the         *)
(* 0.4/0.3/0.3 blend of three whole-point scores are both exact.           *)
(* null and NaN are two values outside the numeric range.                  *)
(***************************************************************************)
EXTENDS Integers, Sequences, FiniteSets, TLC

Scale == 3 * 10

Pts(p) == p * Scale

NULL == 0 - Pts(100000)

NAN == NULL - 1

\* n == null (loose equality: true of null and of undefined, which the model
\* does not tell apart)
IsNull(n) == n = NULL

IsNaN(n) == n = NAN

\* ToNumber as applied by the arithmetic and relational operators: null -> +0
ToNumber(n) == IF IsNull(n) THEN 0 ELSE n

\* a >= b, a > b, a < b on numbers, null coerced to 0, any NaN operand -> false
JsGE(a, b) == ~IsNaN(a) /\ ~IsNaN(b) /\ ToNumber(a) >= ToNumber(b)

JsGT(a, b) == ~IsNaN(a) /\ ~IsNaN(b) /\ ToNumber(a) > ToNumber(b)

JsLT(a, b) == ~IsNaN(a) /\ ~IsNaN(b) /\ ToNumber(a) < ToNumber(b)

\* a + b and a - b, null coerced to 0, NaN absorbing
JsAdd(a, b) == IF IsNaN(a) \/ IsNaN(b) THEN NAN ELSE ToNumber(a) + ToNumber(b)

JsSub(a, b) == IF IsNaN(a) \/ IsNaN(b) THEN NAN ELSE ToNumber(a) - ToNumber(b)

\* Math.min / Math.max of two arguments
MathMin(a, b) ==
    IF IsNaN(a) \/ IsNaN(b) THEN NAN
    ELSE IF ToNumber(a) <= ToNumber(b) THEN ToNumber(a) ELSE ToNumber(b)

MathMax(a, b) ==
    IF IsNaN(a) \/ IsNaN(b) THEN NAN
    ELSE IF ToNumber(a) >= ToNumber(b) THEN ToNumber(a) ELSE ToNumber(b)

(***************************************************************************)
(* Score classifiers                                                       *)
(***************************************************************************)

\* the band table with its top threshold moved up by one point
BANDS_Shifted ==
    << [min |-> 86, label |-> "Excellent"],
       [min |-> 75, label |-> "Very Good"],
       [min |-> 65, label |-> "Good"],
       [min |-> 55, label |-> "Moderate"],
       [min |-> 45, label |-> "Elevated Risk"],
       [min |-> 0,  label |-> "High Risk"] >>

\* BaselineDashboard.jsx BANDS: descending { min, label } table
BANDS ==
    << [min |-> 85, label |-> "Excellent"],
       [min |-> 75, label |-> "Very Good"],
       [min |-> 65, label |-> "Good"],
       [min |-> 55, label |-> "Moderate"],
       [min |-> 45, label |-> "Elevated Risk"],
       [min |-> 0,  label |-> "High Risk"] >>

NoBand == "null"

\* Array.prototype.find over a band table: label of the first entry whose
\* min the score reaches, NoBand when there is none
FindBand(table, score) ==
    LET hits == {i \in 1..Len(table) : JsGE(score, Pts(table[i].min))}
    IN  IF hits = {} THEN NoBand
        ELSE table[CHOOSE i \in hits : \A j \in hits : i <= j].label

getBand(score) ==
    IF IsNull(score) \/ IsNaN(score) THEN NoBand
    ELSE FindBand(BANDS, score)

\* App.jsx SCORE_THRESHOLDS
SCORE_THRESHOLDS == [EXCELLENT |-> 80, HEALTHY |-> 60, MODERATE |-> 45]

\* App.jsx getScoreConfig: the riskLevel of the selected configuration
getScoreConfig(score) ==
    IF JsGE(score, Pts(SCORE_THRESHOLDS.EXCELLENT)) THEN "Low"
    ELSE IF JsGE(score, Pts(SCORE_THRESHOLDS.HEALTHY)) THEN "Mild"
    ELSE IF JsGE(score, Pts(SCORE_THRESHOLDS.MODERATE)) THEN "Moderate"
    ELSE "High"

\* App.jsx getMapColor
getMapColor(score) ==
    IF JsGE(score, Pts(85)) THEN "#14532d"
    ELSE IF JsGE(score, Pts(75)) THEN "#16a34a"
    ELSE IF JsGE(score, Pts(65)) THEN "#4ade80"
    ELSE IF JsGE(score, Pts(55)) THEN "#facc15"
    ELSE IF JsGE(score, Pts(45)) THEN "#fb923c"
    ELSE IF JsGE(score, Pts(35)) THEN "#f97316"
    ELSE "#dc2626"

(***************************************************************************)
(* Scoring pipeline: composite scorer and baseline emitter                 *)
(***************************************************************************)

\* the composite with equal thirds instead of the fixed weights
CompositeScorer_Mean(air, noise, green) ==
    IF IsNull(air) \/ IsNull(noise) \/ IsNull(green) THEN NULL
    ELSE (air + noise + green) \div 3

\* score_overall = 0.4 * air + 0.3 * noise + 0.3 * greenspace, computed only
\* when all three component scores are non-null, otherwise null
CompositeScorer(air, noise, green) ==
    IF IsNull(air) \/ IsNull(noise) \/ IsNull(green) THEN NULL
    ELSE (4 * air + 3 * noise + 3 * green) \div 10

\* band of the overall score by the descending ladder, first match wins
ScoreBand(score) ==
    IF IsNull(score) THEN NoBand
    ELSE IF score >= Pts(85) THEN "Excellent"
    ELSE IF score >= Pts(75) THEN "Very Good"
    ELSE IF score >= Pts(65) THEN "Good"
    ELSE IF score >= Pts(55) THEN "Moderate"
    ELSE IF score >= Pts(45) THEN "Elevated Risk"
    ELSE "High Risk"

\* the DistrictRecord the baseline emitter writes for one district
DistrictRecord(district, air, noise, green) ==
    [district |-> district,
     score_overall |-> CompositeScorer(air, noise, green),
     score_band |-> ScoreBand(CompositeScorer(air, noise, green)),
     components |-> [air |-> [score |-> air],
                     noise |-> [score |-> noise],
                     greenspace |-> [score |-> green]]]

(***************************************************************************)
(* Strings.  A string value is a TLA+ string; Chars gives its characters   *)
(* for the operations that look inside it (toLowerCase, trim, includes,    *)
(* localeCompare).                                                         *)
(***************************************************************************)
Chars ==
    ("" :> <<>>) @@
    ("B1" :> <<"B", "1">>) @@
    ("B2" :> <<"B", "2">>) @@
    ("B3" :> <<"B", "3">>) @@
    ("B4" :> <<"B", "4">>) @@
    ("B5" :> <<"B", "5">>) @@
    ("B6" :> <<"B", "6">>) @@
    ("B10" :> <<"B", "1", "0">>) @@
    ("B11" :> <<"B", "1", "1">>) @@
    ("B99" :> <<"B", "9", "9">>) @@
    ("Ladywood" :> <<"L", "a", "d", "y", "w", "o", "o", "d">>) @@
    ("Centre" :> <<"C", "e", "n", "t", "r", "e">>) @@
    ("Aston" :> <<"A", "s", "t", "o", "n">>) @@
    ("Hockley" :> <<"H", "o", "c", "k", "l", "e", "y">>) @@
    ("Unknown area" :> <<"U", "n", "k", "n", "o", "w", "n", " ", "a", "r", "e", "a">>) @@
    ("Excellent" :> <<"E", "x", "c", "e", "l", "l", "e", "n", "t">>) @@
    ("Very Good" :> <<"V", "e", "r", "y", " ", "G", "o", "o", "d">>) @@
    ("Good" :> <<"G", "o", "o", "d">>) @@
    ("Moderate" :> <<"M", "o", "d", "e", "r", "a", "t", "e">>) @@
    ("Elevated Risk" :> <<"E", "l", "e", "v", "a", "t", "e", "d", " ", "R", "i", "s", "k">>) @@
    ("High Risk" :> <<"H", "i", "g", "h", " ", "R", "i", "s", "k">>) @@
    ("null" :> <<"n", "u", "l", "l">>) @@
    (" " :> <<" ">>) @@
    ("b1" :> <<"b", "1">>) @@
    (" B1 " :> <<" ", "B", "1", " ">>) @@
    ("good" :> <<"g", "o", "o", "d">>) @@
    ("xyz" :> <<"x", "y", "z">>) @@
    ("risk" :> <<"r", "i", "s", "k">>)

\* String.prototype.toLowerCase, character by character
LowerOf ==
    ("A" :> "a") @@ ("B" :> "b") @@ ("C" :> "c") @@ ("E" :> "e") @@ ("G" :> "g") @@ ("H" :> "h") @@ ("L" :> "l") @@ ("M" :> "m") @@ ("R" :> "r") @@ ("U" :> "u") @@ ("V" :> "v")

toLowerCase(cs) ==
    [i \in 1..Len(cs) |-> IF cs[i] \in DOMAIN LowerOf THEN LowerOf[cs[i]] ELSE cs[i]]

\* String.prototype.trim: drop leading and trailing spaces
RECURSIVE trimStart(_)
trimStart(cs) ==
    IF cs # <<>> /\ Head(cs) = " " THEN trimStart(Tail(cs)) ELSE cs

RECURSIVE trimEnd(_)
trimEnd(cs) ==
    IF cs # <<>> /\ cs[Len(cs)] = " " THEN trimEnd(SubSeq(cs, 1, Len(cs) - 1))
    ELSE cs

trim(cs) == trimEnd(trimStart(cs))

\* String.prototype.includes
includes(cs, q) ==
    \E i \in 0..(Len(cs) - Len(q)) : SubSeq(cs, i + 1, i + Len(q)) = q

\* collation order of the characters that occur in district codes
CollationOrder ==
    <<" ", "0", "1", "2", "3", "4", "5", "6", "7", "8", "9", "a", "b", "c", "d", "e", "f", "g", "h", "i", "j", "k", "l", "m", "n", "o", "p", "q", "r", "s", "t", "u", "v", "w", "x", "y", "z">>

CharRank(c) == CHOOSE i \in 1..Len(CollationOrder) : CollationOrder[i] = c

\* a.localeCompare(b) < 0 on strings that differ only in case-free
\* alphanumerics: character by character, a proper prefix first
RECURSIVE LocaleLess(_, _)
LocaleLess(a, b) ==
    IF b = <<>> THEN FALSE
    ELSE IF a = <<>> THEN TRUE
    ELSE IF CharRank(toLowerCase(a)[1]) # CharRank(toLowerCase(b)[1])
         THEN CharRank(toLowerCase(a)[1]) < CharRank(toLowerCase(b)[1])
    ELSE LocaleLess(Tail(a), Tail(b))

\* template literal `${a} ${b} ${c}`
Joined(a, b, c) == Chars[a] \o <<" ">> \o Chars[b] \o <<" ">> \o Chars[c]

(***************************************************************************)
(* Input data: the baseline file served at /data/birmingham_baseline.json, *)
(* the district names and the GeoJSON features                             *)
(***************************************************************************)
NDistricts == 6

\* district, air, noise, greenspace component scores in points (NULL: the
\* component could not be computed); the order is the order in the file
BaselineRows ==
    << <<"B2", 80, 70, 90>>,
       <<"B10", 50, 40, 60>>,
       <<"B1", NULL, 100, 30>>,
       <<"B4", 100, 100, 100>>,
       <<"B3", 0, 0, 0>>,
       <<"B6", 60, 60, NULL>>,
       <<"B5", 90, 20, 50>>,
       <<"B11", 30, 30, 30>> >>

InPts(p) == IF IsNull(p) THEN NULL ELSE Pts(p)

RowRecord(row) == DistrictRecord(row[1], InPts(row[2]), InPts(row[3]), InPts(row[4]))

\* a parsed JSON payload: an array of records, or some other JSON value
ArrayPayload(items) == [isArray |-> TRUE, items |-> items]

NonArrayPayload == [isArray |-> FALSE, items |-> <<>>]

\* the baseline of the first NDistricts rows
CityFile ==
    ArrayPayload([i \in 1..NDistricts |-> RowRecord(BaselineRows[i])])

\* component scores of the one-district baselines
ComponentPoints == {NULL, 0, 10, 50, 95, 100}

OneDistrictFiles ==
    {ArrayPayload(<<DistrictRecord("B1", InPts(a), InPts(n), InPts(g))>>) :
        a \in ComponentPoints, n \in ComponentPoints, g \in ComponentPoints}

\* postcode_district_names.json
districtNames ==
    ("B1" :> "Ladywood") @@ ("B2" :> "Centre") @@ ("B6" :> "Aston")
        @@ ("B10" :> "Hockley")

\* feature.properties.postcode of the features of birmingham_geo.json
CityGeo == {BaselineRows[i][1] : i \in 1..NDistricts} \cup {"B99"}

OneDistrictGeo == {"B1", "B99"}

(***************************************************************************)
(* State                                                                   *)
(***************************************************************************)
VARIABLES
    arg,            \* the argument a pure function is applied to
    ret,            \* what the function returned for arg
    file,           \* the payload the server holds for the baseline URL
    geo,            \* the postcodes of the map features
    mounted,        \* NSIDashboard is mounted
    runs,           \* the effect runs of useBaselineData, each with its load()
    data,           \* useBaselineData: useState([])
    loading,        \* useBaselineData: useState(true)
    error,          \* useBaselineData: useState(null)
    selected,       \* NSIDashboard: useState(null)
    mode,           \* NSIDashboard: useState("overall")
    compareIds,     \* NSIDashboard: useState([])
    search,         \* NSIDashboard: useState("")
    whatIf,         \* NSIDashboard: useState({ air: 0, noise: 0, greenspace: 0 })
    showWhatIf,     \* NSIDashboard: useState(false)
    showComparison, \* NSIDashboard: useState(false)
    value,          \* useAnimatedNumber: the value passed by the last render
    display,        \* useAnimatedNumber: useState(value)
    frames          \* useAnimatedNumber: callbacks requestAnimationFrame holds

pureVars == <<arg, ret>>

inputVars == <<file, geo>>

hookVars == <<mounted, runs, data, loading, error>>

dashVars ==
    <<selected, mode, compareIds, search, whatIf, showWhatIf, showComparison>>

animVars == <<value, display, frames>>

vars == <<pureVars, inputVars, hookVars, dashVars, animVars>>

Pending == [fn |-> "pending"]

NoError == "null"

NoSelection == "null"

MODES == <<"overall", "air", "noise", "greenspace">>

\* the component as constructed, before any effect has run
AppInit(files, features) ==
    /\ file \in files
    /\ geo = features
    /\ mounted = TRUE
    /\ runs = <<>>
    /\ data = <<>>
    /\ loading = TRUE
    /\ error = NoError
    /\ selected = NoSelection
    /\ mode = "overall"
    /\ compareIds = <<>>
    /\ search = ""
    /\ whatIf = [air |-> 0, noise |-> 0, greenspace |-> 0]
    /\ showWhatIf = FALSE
    /\ showComparison = FALSE
    /\ value = NULL
    /\ display = NULL
    /\ frames = <<>>

appVars == <<inputVars, hookVars, dashVars, animVars>>

(***************************************************************************)
(* useBaselineData: the effect, its load() and its cleanup                 *)
(*                                                                         *)
(* runs[i] is the i-th run of the effect: pc is where its load() stands    *)
(* ("fetch": awaiting fetch, "json": awaiting res.json(), "done") and      *)
(* cancelled is the run's own `cancelled` flag.                            *)
(***************************************************************************)
HttpError == "Error: Failed to load baseline"

NetworkError == "TypeError: Failed to fetch"

ParseError == "SyntaxError: Unexpected token"

\* the effect body: load() runs up to its first await
StartLoad ==
    /\ runs' = Append(runs, [pc |-> "fetch", cancelled |-> FALSE])
    /\ loading' = TRUE
    /\ error' = NoError

\* first run of the effect after the component has mounted
RunEffect ==
    /\ mounted
    /\ runs = <<>>
    /\ StartLoad
    /\ UNCHANGED <<pureVars, animVars, inputVars, mounted, data, dashVars>>

\* React.StrictMode: right after the first run, before anything settles, the
\* cleanup runs and the effect runs a second time
StrictModeReplay ==
    /\ mounted
    /\ Len(runs) = 1
    /\ runs[1].pc = "fetch"
    /\ runs' = <<[runs[1] EXCEPT !.cancelled = TRUE],
                 [pc |-> "fetch", cancelled |-> FALSE]>>
    /\ loading' = TRUE
    /\ error' = NoError
    /\ UNCHANGED <<pureVars, animVars, inputVars, mounted, data, dashVars>>

\* the catch block of load() without its setLoading(false)
Catch_KeepsLoading(i, err) ==
    IF ~runs[i].cancelled
    THEN /\ error' = err
         /\ UNCHANGED <<data, loading>>
    ELSE UNCHANGED <<data, loading, error>>

\* the catch block of load(), ignoring the cancelled flag
Catch_Unguarded(i, err) ==
    /\ error' = err
    /\ loading' = FALSE
    /\ UNCHANGED data

\* the catch block of load()
Catch(i, err) ==
    IF ~runs[i].cancelled
    THEN /\ error' = err
         /\ loading' = FALSE
         /\ UNCHANGED data
    ELSE UNCHANGED <<data, loading, error>>

\* fetch() of run i rejects
FetchRejects(i) ==
    /\ runs[i].pc = "fetch"
    /\ runs' = [runs EXCEPT ![i].pc = "done"]
    /\ Catch(i, NetworkError)
    /\ UNCHANGED <<pureVars, animVars, inputVars, mounted, dashVars>>

\* fetch() of run i resolves with a response whose ok flag is false
FetchNotOk(i) ==
    /\ runs[i].pc = "fetch"
    /\ runs' = [runs EXCEPT ![i].pc = "done"]
    /\ Catch(i, HttpError)
    /\ UNCHANGED <<pureVars, animVars, inputVars, mounted, dashVars>>

\* fetch() of run i resolves with an ok response; load() awaits res.json()
FetchOk(i) ==
    /\ runs[i].pc = "fetch"
    /\ runs' = [runs EXCEPT ![i].pc = "json"]
    /\ UNCHANGED <<pureVars, animVars, inputVars, mounted, data, loading, error, dashVars>>

\* res.json() of run i rejects
JsonRejects(i) ==
    /\ runs[i].pc = "json"
    /\ runs' = [runs EXCEPT ![i].pc = "done"]
    /\ Catch(i, ParseError)
    /\ UNCHANGED <<pureVars, animVars, inputVars, mounted, dashVars>>

\* the success branch of load(), ignoring the cancelled flag
Store_Unguarded(i, json) ==
    /\ data' = (IF json.isArray THEN json.items ELSE <<>>)
    /\ loading' = FALSE
    /\ UNCHANGED error

\* the success branch of load()
Store(i, json) ==
    IF ~runs[i].cancelled
    THEN /\ data' = (IF json.isArray THEN json.items ELSE <<>>)
         /\ loading' = FALSE
         /\ UNCHANGED error
    ELSE UNCHANGED <<data, loading, error>>

\* res.json() of run i resolves with the content of the file
JsonResolves(i) ==
    /\ runs[i].pc = "json"
    /\ runs' = [runs EXCEPT ![i].pc = "done"]
    /\ Store(i, file)
    /\ UNCHANGED <<pureVars, animVars, inputVars, mounted, dashVars>>

\* the component unmounts (route change): the cleanup of the last run sets
\* its cancelled flag
Unmount ==
    /\ mounted
    /\ mounted' = FALSE
    /\ runs' = [i \in 1..Len(runs) |->
                    IF i = Len(runs) THEN [runs[i] EXCEPT !.cancelled = TRUE]
                    ELSE runs[i]]
    /\ UNCHANGED <<pureVars, animVars, inputVars, data, loading, error, dashVars>>

Settle ==
    \E i \in 1..Len(runs) :
        \/ FetchRejects(i)
        \/ FetchNotOk(i)
        \/ FetchOk(i)
        \/ JsonRejects(i)
        \/ JsonResolves(i)

NextHook == RunEffect \/ StrictModeReplay \/ Settle \/ Unmount

(***************************************************************************)
(* NSIDashboard: formatting helpers and the values derived with useMemo    *)
(***************************************************************************)
Abs(n) == IF n < 0 THEN 0 - n ELSE n

Pow10(f) == IF f = 0 THEN 1 ELSE IF f = 1 THEN 10 ELSE 100

\* Number.prototype.toFixed(f): the nearest multiple of 10^-f, ties upward in
\* magnitude, kept as sign and integer count of 10^-f
toFixed(n, f) ==
    [sign |-> IF n < 0 THEN "-" ELSE "",
     digits |-> f,
     count |-> (2 * Abs(n) * Pow10(f) + Scale) \div (2 * Scale)]

Dash == [text |-> "-"]

format(n, d) == IF IsNull(n) \/ IsNaN(n) THEN Dash ELSE toFixed(n, d)

NeutralFill == [fill |-> "#020617"]

\* getColor without the clamp of the score
getColor_Unclamped(score) ==
    IF IsNull(score) \/ IsNaN(score) THEN NeutralFill
    ELSE [hue |-> score * 120]

\* getColor: hue in units of 1/(100 * Scale) of a degree
getColor(score) ==
    IF IsNull(score) \/ IsNaN(score) THEN NeutralFill
    ELSE [hue |-> MathMax(0, MathMin(Pts(100), score)) * 120]

NoRecord == [null |-> TRUE]

\* Array.prototype.find by district code; NoRecord stands for undefined/null
FindDistrict(records, code) ==
    LET hits == {i \in 1..Len(records) : records[i].district = code}
    IN  IF hits = {} THEN NoRecord
        ELSE records[CHOOSE i \in hits : \A j \in hits : i <= j]

AreaName(code) ==
    IF code \in DOMAIN districtNames THEN districtNames[code] ELSE "Unknown area"

enrichedData ==
    [i \in 1..Len(data) |-> ("area_name" :> AreaName(data[i].district)) @@ data[i]]

\* the filter keeping every record, scored or not
validDistricts_All == enrichedData

validDistricts ==
    SelectSeq(enrichedData, LAMBDA d : ~IsNull(d.score_overall))

selectedData == FindDistrict(enrichedData, selected)

RECURSIVE SumScores(_)
SumScores(records) ==
    IF records = <<>> THEN 0
    ELSE JsAdd(SumScores(SubSeq(records, 1, Len(records) - 1)),
               records[Len(records)].score_overall)

\* the first record of the list as it is, without any sort
FirstExtreme_Unsorted(records, descending) == records[1]

\* [...records].sort(cmp)[0] for the two comparators on score_overall: the
\* sort is stable, so the first record that no other record beats
FirstExtreme(records, descending) ==
    LET beats(a, b) ==
            IF descending
            THEN JsSub(b.score_overall, a.score_overall) < 0
            ELSE JsSub(a.score_overall, b.score_overall) < 0
        tops == {i \in 1..Len(records) :
                    \A j \in 1..Len(records) : ~beats(records[j], records[i])}
    IN  records[CHOOSE i \in tops : \A j \in tops : i <= j]

NoStats == [null |-> TRUE]

\* avg is kept as the exact fraction num / den
cityStats ==
    IF Len(validDistricts) = 0 THEN NoStats
    ELSE [avg |-> [num |-> SumScores(validDistricts),
                   den |-> Len(validDistricts)],
          best |-> FirstExtreme(validDistricts, TRUE),
          worst |-> FirstExtreme(validDistricts, FALSE)]

\* the adjusted air score without the lower clamp
newAir_NoFloor ==
    MathMin(Pts(100), JsAdd(selectedData.components.air.score, Pts(whatIf.air)))

newAir ==
    MathMin(Pts(100),
            MathMax(0, JsAdd(selectedData.components.air.score, Pts(whatIf.air))))

newNoise ==
    MathMin(Pts(100),
            MathMax(0, JsAdd(selectedData.components.noise.score,
                             Pts(whatIf.noise))))

newGreen ==
    MathMin(Pts(100),
            MathMax(0, JsAdd(selectedData.components.greenspace.score,
                             Pts(whatIf.greenspace))))

whatIfScore ==
    IF selectedData = NoRecord THEN NULL
    ELSE (newAir + newNoise + newGreen) \div 3

\* one step of the stable sort by district.localeCompare: d goes before the
\* first record whose district is strictly greater
InsertByDistrict(sorted, d) ==
    LET later == {i \in 1..Len(sorted) :
                    LocaleLess(Chars[d.district], Chars[sorted[i].district])}
    IN  IF later = {} THEN Append(sorted, d)
        ELSE LET k == CHOOSE i \in later : \A j \in later : i <= j
             IN  SubSeq(sorted, 1, k - 1) \o <<d>> \o SubSeq(sorted, k, Len(sorted))

RECURSIVE SortByDistrict(_)
SortByDistrict(records) ==
    IF records = <<>> THEN <<>>
    ELSE InsertByDistrict(SortByDistrict(SubSeq(records, 1, Len(records) - 1)),
                          records[Len(records)])

sortedDistricts == SortByDistrict(enrichedData)

SearchText(d) == toLowerCase(Joined(d.district, d.area_name, d.score_band))

\* the filter with a query that is lower-cased but not trimmed
filteredDistricts_Untrimmed ==
    LET q == toLowerCase(Chars[search])
    IN  IF q = <<>> THEN sortedDistricts
        ELSE SelectSeq(sortedDistricts, LAMBDA d : includes(SearchText(d), q))

filteredDistricts ==
    LET q == toLowerCase(trim(Chars[search]))
    IN  IF q = <<>> THEN sortedDistricts
        ELSE SelectSeq(sortedDistricts, LAMBDA d : includes(SearchText(d), q))

\* the rows without filtering the selected district out of compareIds
comparisonRows_Unfiltered ==
    IF selectedData = NoRecord THEN <<>>
    ELSE LET ids == <<selectedData.district>> \o compareIds
             rows == [i \in 1..Len(ids) |-> FindDistrict(enrichedData, ids[i])]
         IN  SelectSeq(rows, LAMBDA r : r # NoRecord)

comparisonRows ==
    IF selectedData = NoRecord THEN <<>>
    ELSE LET ids == <<selectedData.district>>
                        \o SelectSeq(compareIds,
                                     LAMBDA x : x # selectedData.district)
             rows == [i \in 1..Len(ids) |-> FindDistrict(enrichedData, ids[i])]
         IN  SelectSeq(rows, LAMBDA r : r # NoRecord)

\* the districts offered by the comparison picker
pickerDistricts == SelectSeq(sortedDistricts, LAMBDA d : d.district # selected)

Includes(seq, x) == \E i \in 1..Len(seq) : seq[i] = x

\* the updater without the limit of four
toggleCompare_NoLimit(prev, districtCode) ==
    IF districtCode = selected THEN prev
    ELSE IF Includes(prev, districtCode)
         THEN SelectSeq(prev, LAMBDA x : x # districtCode)
    ELSE Append(prev, districtCode)

\* toggleCompare: the next compareIds for the current compareIds prev
toggleCompare(prev, districtCode) ==
    IF districtCode = selected THEN prev
    ELSE IF Includes(prev, districtCode)
         THEN SelectSeq(prev, LAMBDA x : x # districtCode)
    ELSE IF Len(prev) >= 4 THEN prev
    ELSE Append(prev, districtCode)

\* the element next to "Projected Overall Score"
changeIndicator ==
    IF JsGT(whatIfScore, selectedData.score_overall)
    THEN [icon |-> "TrendingUp",
          delta |-> format(JsSub(whatIfScore, selectedData.score_overall), 1)]
    ELSE IF JsLT(whatIfScore, selectedData.score_overall)
    THEN [icon |-> "TrendingDown",
          delta |-> format(JsSub(whatIfScore, selectedData.score_overall), 1)]
    ELSE [icon |-> "Minus", delta |-> [text |-> "No change"]]

\* the score the map paints a feature with in the current mode
FeatureScore(postcode) ==
    LET d == FindDistrict(enrichedData, postcode)
    IN  IF d = NoRecord THEN NULL
        ELSE IF mode = "overall" THEN d.score_overall
        ELSE d.components[mode].score

(***************************************************************************)
(* NSIDashboard: event handlers.  The dashboard content, and with it every *)
(* handler, exists only once loading is false and error is null.           *)
(***************************************************************************)
ContentShown == mounted /\ ~loading /\ error = NoError

\* the early returns of the component without the loading branch
Screen_NoLoadingBranch ==
    IF error # NoError THEN "failed" ELSE "content"

\* what the component returns: the loading screen, the failure screen or
\* the district content
Screen ==
    IF loading THEN "loading"
    ELSE IF error # NoError THEN "failed"
    ELSE "content"

DetailShown == ContentShown /\ selectedData # NoRecord

WhatIfShown == DetailShown /\ showWhatIf

ComparisonShown == DetailShown /\ showComparison

SliderStep == 10

\* values of the range inputs (min -20, max 20)
SliderValues == {v \in (0 - 20)..20 : v % SliderStep = 0}

Queries == {"", " ", "b1", " B1 ", "good", "xyz", "risk"}

\* a click handler that also resets the sliders
MapClick_ResetsWhatIf(postcode) ==
    /\ ContentShown
    /\ selected' = postcode
    /\ whatIf' = [air |-> 0, noise |-> 0, greenspace |-> 0]
    /\ UNCHANGED <<pureVars, animVars, inputVars, hookVars, mode, compareIds, search,
                   showWhatIf, showComparison>>

\* click on a map feature
MapClick(postcode) ==
    /\ ContentShown
    /\ selected' = postcode
    /\ UNCHANGED <<pureVars, animVars, inputVars, hookVars, mode, compareIds, search,
                   whatIf, showWhatIf, showComparison>>

\* click on a search result
SearchPick(d) ==
    /\ ContentShown
    /\ search # ""
    /\ selected' = d.district
    /\ search' = ""
    /\ UNCHANGED <<pureVars, animVars, inputVars, hookVars, mode, compareIds, whatIf,
                   showWhatIf, showComparison>>

\* typing in the search box
SetSearch(q) ==
    /\ ContentShown
    /\ search' = q
    /\ UNCHANGED <<pureVars, animVars, inputVars, hookVars, selected, mode, compareIds,
                   whatIf, showWhatIf, showComparison>>

SetMode(m) ==
    /\ ContentShown
    /\ mode' = m
    /\ UNCHANGED <<pureVars, animVars, inputVars, hookVars, selected, compareIds, search,
                   whatIf, showWhatIf, showComparison>>

\* "Show/Hide What-If Analysis"
ToggleWhatIf ==
    /\ DetailShown
    /\ showWhatIf' = ~showWhatIf
    /\ UNCHANGED <<pureVars, animVars, inputVars, hookVars, selected, mode, compareIds,
                   search, whatIf, showComparison>>

\* "Show/Hide Comparison Tool", and the X of the comparison panel
ToggleComparison ==
    /\ DetailShown
    /\ showComparison' = ~showComparison
    /\ UNCHANGED <<pureVars, animVars, inputVars, hookVars, selected, mode, compareIds,
                   search, whatIf, showWhatIf>>

\* a what-if slider moves
SetWhatIf(key, v) ==
    /\ WhatIfShown
    /\ whatIf' = [whatIf EXCEPT ![key] = v]
    /\ UNCHANGED <<pureVars, animVars, inputVars, hookVars, selected, mode, compareIds,
                   search, showWhatIf, showComparison>>

\* "Reset All"
ResetAll ==
    /\ WhatIfShown
    /\ whatIf' = [air |-> 0, noise |-> 0, greenspace |-> 0]
    /\ UNCHANGED <<pureVars, animVars, inputVars, hookVars, selected, mode, compareIds,
                   search, showWhatIf, showComparison>>

\* toggleCompare(districtCode).  The picker offers every district but the
\* selected one; the handler itself also accepts the selected one.
ToggleCompare(districtCode) ==
    /\ ComparisonShown
    /\ compareIds' = toggleCompare(compareIds, districtCode)
    /\ UNCHANGED <<pureVars, animVars, inputVars, hookVars, selected, mode, search, whatIf,
                   showWhatIf, showComparison>>

Select ==
    \/ \E postcode \in geo : MapClick(postcode)
    \/ \E i \in 1..Len(filteredDistricts) : SearchPick(filteredDistricts[i])

(***************************************************************************)
(* Specifications of the running dashboard.  Each one takes the handlers   *)
(* of one part of the page together with the whole life of the hook; the   *)
(* handlers it leaves out neither read nor write the state its handlers    *)
(* and its derived values use.                                             *)
(***************************************************************************)
PureIdle == arg = NULL /\ ret = Pending

\* useBaselineData alone, over a baseline, an empty baseline and a payload
\* that is no array
HookFiles == {CityFile, ArrayPayload(<<>>), NonArrayPayload}

InitHook == PureIdle /\ AppInit(HookFiles, CityGeo)

SpecHook == InitHook /\ [][NextHook]_vars

\* district list: selection, search and the comparison panel switch
InitList == PureIdle /\ AppInit({CityFile}, CityGeo)

NextList ==
    \/ NextHook
    \/ Select
    \/ \E q \in Queries : SetSearch(q)
    \/ ToggleComparison

SpecList == InitList /\ [][NextList]_vars

\* comparison: selection on the map and the comparison picker
NextCompare ==
    \/ NextHook
    \/ \E postcode \in geo : MapClick(postcode)
    \/ ToggleComparison
    \/ \E i \in 1..Len(data) : ToggleCompare(data[i].district)

SpecCompare == InitList /\ [][NextCompare]_vars

\* what-if panel over every one-district baseline
InitWhatIf == PureIdle /\ AppInit(OneDistrictFiles, OneDistrictGeo)

NextWhatIf ==
    \/ NextHook
    \/ \E postcode \in geo : MapClick(postcode)
    \/ ToggleWhatIf
    \/ \E key \in {"air", "noise", "greenspace"}, v \in SliderValues :
            SetWhatIf(key, v)
    \/ ResetAll

SpecWhatIf == InitWhatIf /\ [][NextWhatIf]_vars

\* the whole dashboard over the city baseline
Init == InitList

Next ==
    \/ NextHook
    \/ Select
    \/ \E q \in Queries : SetSearch(q)
    \/ \E i \in 1..Len(MODES) : SetMode(MODES[i])
    \/ ToggleWhatIf
    \/ ToggleComparison
    \/ \E key \in {"air", "noise", "greenspace"}, v \in SliderValues :
            SetWhatIf(key, v)
    \/ ResetAll
    \/ \E i \in 1..Len(data) : ToggleCompare(data[i].district)

Spec == Init /\ [][Next]_vars

(***************************************************************************)
(* Classifier specification: every classifier applied to a probe score     *)
(***************************************************************************)
MinProbe == 3

MaxProbe == 103

\* whole points from -MinProbe to MaxProbe, each with its two neighbours one
\* unit below and above, and the two non-numbers
ProbeScores ==
    {Pts(p) + o : p \in (0 - MinProbe)..MaxProbe, o \in {0 - 1, 0, 1}}
        \cup {NULL, NAN}

InitBand ==
    /\ arg \in ProbeScores
    /\ ret = Pending
    /\ AppInit({CityFile}, CityGeo)

Classify ==
    /\ ret = Pending
    /\ ret' = [fn |-> "classify",
               getBand |-> getBand(arg),
               getMapColor |-> getMapColor(arg),
               getScoreConfig |-> getScoreConfig(arg)]
    /\ UNCHANGED <<arg, appVars>>

NextBand == Classify

SpecBand == InitBand /\ [][NextBand]_vars

(***************************************************************************)
(* Pipeline specification: the baseline emitter applied to one district's  *)
(* component scores                                                        *)
(***************************************************************************)
PipeStep == 5

\* component scores the aggregators hand to the composite scorer: null, or a
\* whole number of points in [0, 100]
PipelineScores ==
    {NULL, Pts(100)} \cup {Pts(p) : p \in {q \in 0..100 : q % PipeStep = 0}}

InitPipeline ==
    /\ arg \in [air : PipelineScores, noise : PipelineScores,
                greenspace : PipelineScores]
    /\ ret = Pending
    /\ AppInit({CityFile}, CityGeo)

Emit ==
    /\ ret = Pending
    /\ ret' = [fn |-> "emit",
               record |-> DistrictRecord("B1", arg.air, arg.noise, arg.greenspace)]
    /\ UNCHANGED <<arg, appVars>>

NextPipeline == Emit

SpecPipeline == InitPipeline /\ [][NextPipeline]_vars

(***************************************************************************)
(* Claims about the classifiers (checked under SpecBand)                   *)
(***************************************************************************)
IsNumber(n) == ~IsNull(n) /\ ~IsNaN(n)

\* the ladder as the specification words it: first match wins, top-down
Ladder(score) ==
    IF score >= Pts(85) THEN "Excellent"
    ELSE IF score >= Pts(75) THEN "Very Good"
    ELSE IF score >= Pts(65) THEN "Good"
    ELSE IF score >= Pts(55) THEN "Moderate"
    ELSE IF score >= Pts(45) THEN "Elevated Risk"
    ELSE "High Risk"

Classified == ret.fn = "classify"

\* C1 (as stated): getBand maps every non-null, non-NaN numeric score to the
\* band of the ladder >=85 Excellent, >=75 Very Good, >=65 Good, >=55
\* Moderate, >=45 Elevated Risk, and every other score to High Risk.
C1_EveryNumberHasLadderBand ==
    (Classified /\ IsNumber(arg)) => ret.getBand = Ladder(arg)

\* C1 (amended): getBand maps every non-null, non-NaN score that is at least
\* 0 to the band of the ladder, boundaries inclusive; a negative score gets
\* no band.
C1_NonNegativeHasLadderBand ==
    (Classified /\ IsNumber(arg)) =>
        ret.getBand = (IF arg >= 0 THEN Ladder(arg) ELSE NoBand)

C1_Witness ==
    Classified /\ arg = Pts(45) - 1 /\ ret.getBand = "High Risk"

\* C2: for scores in 0..100, two scores are in the same getBand band if and
\* only if they are in the same getMapColor class and in the same
\* getScoreConfig class (one shared threshold ladder).
InScoreRange(n) == IsNumber(n) /\ n >= 0 /\ n <= Pts(100)

C2_OneSharedLadder ==
    (Classified /\ InScoreRange(arg)) =>
        \A t \in {u \in ProbeScores : InScoreRange(u)} :
            (getBand(t) = ret.getBand)
                <=> (getMapColor(t) = ret.getMapColor
                        /\ getScoreConfig(t) = ret.getScoreConfig)

(***************************************************************************)
(* Claims about the baseline records (checked under SpecPipeline)          *)
(***************************************************************************)
Emitted == ret.fn = "emit"

\* C3: in every DistrictRecord, score_overall is null if and only if at least
\* one of the air, noise and greenspace scores is null, and otherwise ten
\* times score_overall is 4 * air + 3 * noise + 3 * greenspace.
C3_OverallIsWeightedOrNull ==
    Emitted =>
        LET c == ret.record.components
            someNull == IsNull(c.air.score) \/ IsNull(c.noise.score)
                            \/ IsNull(c.greenspace.score)
        IN  /\ IsNull(ret.record.score_overall) <=> someNull
            /\ ~someNull =>
                10 * ret.record.score_overall
                    = 4 * c.air.score + 3 * c.noise.score
                        + 3 * c.greenspace.score

C3_Witness ==
    /\ Emitted
    /\ arg = [air |-> Pts(100), noise |-> 0, greenspace |-> 0]
    /\ ret.record.score_overall = Pts(40)

(***************************************************************************)
(* Claims about the what-if panel (checked under SpecWhatIf)               *)
(***************************************************************************)
AirScore == selectedData.components.air.score

NoiseScore == selectedData.components.noise.score

GreenScore == selectedData.components.greenspace.score

AllComponentsScored ==
    ~IsNull(AirScore) /\ ~IsNull(NoiseScore) /\ ~IsNull(GreenScore)

SlidersAtZero == whatIf.air = 0 /\ whatIf.noise = 0 /\ whatIf.greenspace = 0

InPoints(n) == 0 <= n /\ n <= Pts(100)

\* C4: the projected overall score is 0.4 * air' + 0.3 * noise' + 0.3 * green'
\* of the adjusted, clamped component scores; so for a district whose
\* score_overall is the weighted composite of its components, the projection
\* with all sliders at 0 equals score_overall and the indicator shows
\* "No change".
C4_ProjectionIsWeightedComposite ==
    (WhatIfShown /\ AllComponentsScored) =>
        /\ 10 * whatIfScore = 4 * newAir + 3 * newNoise + 3 * newGreen
        /\ (SlidersAtZero
              /\ 10 * selectedData.score_overall
                    = 4 * AirScore + 3 * NoiseScore + 3 * GreenScore)
            => (whatIfScore = selectedData.score_overall
                  /\ changeIndicator.icon = "Minus")

\* C5: for a selected district whose component scores lie in [0, 100] and
\* slider deltas in -20..20, every adjusted component score and whatIfScore
\* lie in [0, 100].
C5_ProjectionInRange ==
    (DetailShown /\ AllComponentsScored
        /\ InPoints(AirScore) /\ InPoints(NoiseScore) /\ InPoints(GreenScore))
    => (InPoints(newAir) /\ InPoints(newNoise) /\ InPoints(newGreen)
          /\ InPoints(whatIfScore))

C5_Witness ==
    /\ WhatIfShown
    /\ AirScore = 0
    /\ whatIf.air < 0
    /\ newAir = 0
    /\ GreenScore = Pts(100)
    /\ whatIf.greenspace > 0
    /\ newGreen = Pts(100)

\* C7: a district whose score_overall is null is never treated as having
\* score 0: the score renders as unknown, it has no band and the neutral map
\* fill, and the what-if change indicator reports no rise or fall measured
\* against 0.
C7_NullOverallNeverZero ==
    (DetailShown /\ IsNull(selectedData.score_overall)) =>
        /\ format(selectedData.score_overall, 1) = Dash
        /\ getBand(selectedData.score_overall) = NoBand
        /\ getColor(FeatureScore(selected)) = NeutralFill
        /\ WhatIfShown => changeIndicator.icon = "Minus"

\* C8: when any component score of the selected district is null, the
\* projected overall score is null.
C8_NullComponentNoProjection ==
    (DetailShown /\ ~AllComponentsScored) => IsNull(whatIfScore)

(***************************************************************************)
(* Claims about the district list (checked under SpecList)                 *)
(***************************************************************************)
Scored == {i \in 1..Len(data) : ~IsNull(data[i].score_overall)}

Unscored == {i \in 1..Len(data) : IsNull(data[i].score_overall)}

RECURSIVE SumOfScores(_)
SumOfScores(S) ==
    IF S = {} THEN 0
    ELSE LET i == CHOOSE j \in S : TRUE
         IN  data[i].score_overall + SumOfScores(S \ {i})

Lists(records, code) == \E i \in 1..Len(records) : records[i].district = code

BlankQuery == trim(Chars[search]) = <<>>

\* C6: cityStats (average, best, worst) is computed over the records with a
\* non-null score_overall only, while every record with a null score_overall
\* is still in the sorted district list, in the search results whenever the
\* query is blank or matches it, and in the comparison picker unless it is
\* the selected district.
C6_NullExcludedButRendered ==
    ContentShown =>
        /\ (cityStats = NoStats) <=> (Scored = {})
        /\ Scored # {} =>
            /\ cityStats.avg.den = Cardinality(Scored)
            /\ cityStats.avg.num = SumOfScores(Scored)
            /\ \E i \in Scored : cityStats.best.district = data[i].district
            /\ \E i \in Scored : cityStats.worst.district = data[i].district
            /\ ~IsNull(cityStats.best.score_overall)
            /\ ~IsNull(cityStats.worst.score_overall)
        /\ \A i \in Unscored :
            /\ Lists(sortedDistricts, data[i].district)
            /\ (BlankQuery
                  \/ includes(SearchText(enrichedData[i]),
                              toLowerCase(trim(Chars[search]))))
                => Lists(filteredDistricts, data[i].district)
            /\ data[i].district # selected
                => Lists(pickerDistricts, data[i].district)

C6_Witness ==
    /\ ContentShown
    /\ search = "b1"
    /\ showComparison
    /\ selected = "B2"
    /\ \E i \in Unscored :
        /\ data[i].district = "B1"
        /\ Lists(filteredDistricts, "B1")
        /\ Lists(pickerDistricts, "B1")
    /\ cityStats.avg.den < Len(data)
    /\ cityStats.worst.score_overall = 0

NoDuplicates(seq) ==
    \A i, j \in 1..Len(seq) : seq[i] = seq[j] => i = j

Without(seq, x) == SelectSeq(seq, LAMBDA y : y # x)

\* C10: compareIds always holds at most 4 district codes without duplicates;
\* toggleCompare removes a code that is held, adds a new code only while
\* fewer than 4 are held, and leaves compareIds unchanged for the selected
\* district.
C10_CompareIdsBounded ==
    /\ [](Len(compareIds) <= 4 /\ NoDuplicates(compareIds))
    /\ [][\A i \in 1..Len(data) :
            LET code == data[i].district
            IN  ToggleCompare(code) =>
                    compareIds' =
                        IF code = selected THEN compareIds
                        ELSE IF Includes(compareIds, code)
                             THEN Without(compareIds, code)
                        ELSE IF Len(compareIds) < 4
                             THEN Append(compareIds, code)
                        ELSE compareIds]_vars

C10_Witness ==
    /\ ComparisonShown
    /\ Len(compareIds) = 4
    /\ ~Includes(compareIds, selected)
    /\ Len(pickerDistricts) > 4

\* C11: whenever fewer than 4 districts other than the selected one are in
\* the comparison, toggling a district that is neither selected nor compared
\* adds it to the comparison.
ComparedOthers == Without(compareIds, selected)

C11_RoomForFourOthers ==
    ComparisonShown =>
        \A i \in 1..Len(pickerDistricts) :
            LET code == pickerDistricts[i].district
            IN  (~Includes(compareIds, code) /\ Len(ComparedOthers) < 4)
                    => Includes(toggleCompare(compareIds, code), code)

\* C20: the selected district is never a member of compareIds.
C20_SelectedNeverCompared == ~Includes(compareIds, selected)

(***************************************************************************)
(* Noise Aggregator of the scoring pipeline.  Sound levels are integers    *)
(* in tenths of a decibel; a layer without a polygon around the postcode   *)
(* point reads NoMatch.  Risk is kept as an exact fraction [num, den] and  *)
(* the score is rounded down to the fixed-point grid of Pts.               *)
(***************************************************************************)
DeciBel(db) == db * 10

NoMatch == NULL

NOISE_FALLBACK == DeciBel(45)

NOISE_RISK_FLOOR == DeciBel(45)

NOISE_RISK_SPAN == DeciBel(35)

\* combined level of one metric at one postcode: the worse of the matching
\* road and rail polygons, the fallback when neither matches
CombineLayers(road, rail) ==
    IF road = NoMatch /\ rail = NoMatch THEN NOISE_FALLBACK
    ELSE IF road = NoMatch THEN rail
    ELSE IF rail = NoMatch THEN road
    ELSE IF road >= rail THEN road ELSE rail

PostcodeNoise(p) ==
    [lden   |-> CombineLayers(p.road_lden, p.rail_lden),
     lnight |-> CombineLayers(p.road_lnight, p.rail_lnight)]

RECURSIVE SumLden(_)
SumLden(ps) ==
    IF ps = <<>> THEN 0 ELSE PostcodeNoise(Head(ps)).lden + SumLden(Tail(ps))

RECURSIVE SumLnight(_)
SumLnight(ps) ==
    IF ps = <<>> THEN 0 ELSE PostcodeNoise(Head(ps)).lnight + SumLnight(Tail(ps))

Clamp(x, lo, hi) == IF x < lo THEN lo ELSE IF x > hi THEN hi ELSE x

\* risk = (mean - 45) / 35 without the clipping
NoiseRisk_Unclipped(sum, n) ==
    [num |-> sum - NOISE_RISK_FLOOR * n, den |-> NOISE_RISK_SPAN * n]

\* risk = clamp((mean - 45) / 35, 0, 1) for mean = sum / n
NoiseRisk(sum, n) ==
    [num |-> Clamp(sum - NOISE_RISK_FLOOR * n, 0, NOISE_RISK_SPAN * n),
     den |-> NOISE_RISK_SPAN * n]

\* 100 * (1 - risk)
RiskToScore(risk) == (Pts(100) * (risk.den - risk.num)) \div risk.den

NoiseAggregator(postcodes) ==
    LET n == Len(postcodes)
    IN  IF n = 0
        THEN [score |-> NULL, risk |-> NULL,
              mean_lden_db |-> NULL, mean_lnight_db |-> NULL]
        ELSE [score |-> RiskToScore(NoiseRisk(SumLden(postcodes), n)),
              risk  |-> NoiseRisk(SumLden(postcodes), n),
              mean_lden_db   |-> [num |-> SumLden(postcodes), den |-> n],
              mean_lnight_db |-> [num |-> SumLnight(postcodes), den |-> n]]

(***************************************************************************)
(* Specification of the Noise Aggregator: one district of at most          *)
(* MaxPostcodes postcode points, each read against the four noise layers.  *)
(***************************************************************************)
MaxPostcodes == 2

NoiseStep == 125

RoadLdenReadings ==
    {NoMatch, DeciBel(40), DeciBel(80), DeciBel(85)}
        \cup {d \in DeciBel(50)..DeciBel(78) : d % NoiseStep = 0}

RailLdenReadings == {NoMatch, DeciBel(62) + 5}

LnightReadings == {NoMatch, DeciBel(52) + 5}

PostcodeReadings ==
    [road_lden : RoadLdenReadings, rail_lden : RailLdenReadings,
     road_lnight : LnightReadings, rail_lnight : LnightReadings]

NoiseDistricts ==
    UNION {[1..n -> PostcodeReadings] : n \in 0..MaxPostcodes}

InitNoise ==
    /\ arg \in NoiseDistricts
    /\ ret = Pending
    /\ AppInit({CityFile}, CityGeo)

AggregateNoise ==
    /\ ret = Pending
    /\ ret' = [fn |-> "noise", noise |-> NoiseAggregator(arg)]
    /\ UNCHANGED <<arg, appVars>>

NextNoise == AggregateNoise

SpecNoise == InitNoise /\ [][NextNoise]_vars

\* C12: the noise score is 100 * (1 - clamp((Lden - 45) / 35, 0, 1)) of the
\* district's mean Lden; a district whose postcodes match no noise polygon
\* has mean Lden = mean Lnight = 45, risk 0 and score 100; a mean Lden of 80
\* or more scores 0; the score never rises when Lden rises and never leaves
\* [0, 100].
NoiseDone == ret # Pending /\ ret.fn = "noise" /\ Len(arg) > 0

Unmatched(p) ==
    /\ p.road_lden = NoMatch /\ p.rail_lden = NoMatch
    /\ p.road_lnight = NoMatch /\ p.rail_lnight = NoMatch

LdenProbes == {d \in DeciBel(30)..DeciBel(95) : d % 25 = 0}

C12_NoiseScore ==
    NoiseDone =>
        LET n     == Len(arg)
            out   == ret.noise
            sum   == out.mean_lden_db.num
            excess == sum - DeciBel(45) * n
            span  == DeciBel(35) * n
            clipped == IF excess <= 0 THEN 0
                       ELSE IF excess >= span THEN span ELSE excess
        IN  /\ out.mean_lden_db.den = n
            /\ out.risk.num * span = clipped * out.risk.den
            /\ out.score * span <= Pts(100) * (span - clipped)
            /\ Pts(100) * (span - clipped) < (out.score + 1) * span
            /\ (\A i \in 1..n : Unmatched(arg[i]))
                   => /\ sum = DeciBel(45) * n
                      /\ out.mean_lnight_db.num = DeciBel(45) * n
                      /\ out.risk.num = 0
                      /\ out.score = Pts(100)
            /\ sum >= DeciBel(80) * n => out.score = 0
            /\ out.score >= 0 /\ out.score <= Pts(100)
            /\ \A d \in LdenProbes :
                   LET other == RiskToScore(NoiseRisk(d, 1))
                   IN  /\ d * n >= sum => other <= out.score
                       /\ d * n <= sum => other >= out.score

C12_Witness ==
    /\ NoiseDone
    /\ Len(arg) = 2
    /\ Unmatched(arg[1])
    /\ ~Unmatched(arg[2])
    /\ ret.noise.mean_lden_db.num > DeciBel(45) * 2
    /\ ret.noise.score > 0
    /\ ret.noise.score < Pts(100)

(***************************************************************************)
(* Air Quality Aggregator: per-pollutant risk and score of a district's    *)
(* mean concentration (whole ug/m3) against the configured safe and danger *)
(* thresholds of the pollutant.                                            *)
(***************************************************************************)
POLLUTANTS == {"no2", "pm10", "pm25"}

\* risk_p = (observed - safe) / (danger - safe) without the clamp
PollutantRisk_Unclipped(observed, safe, danger) ==
    [num |-> observed - safe, den |-> danger - safe]

\* risk_p = clamp((observed - safe) / (danger - safe), 0, 1)
PollutantRisk(observed, safe, danger) ==
    [num |-> Clamp(observed - safe, 0, danger - safe), den |-> danger - safe]

PollutantScore(observed, safe, danger) ==
    RiskToScore(PollutantRisk(observed, safe, danger))

MaxObserved == 60

ThresholdValues == {10, 25, 40, 50}

ThresholdConfigs ==
    {c \in [safe : ThresholdValues, danger : ThresholdValues] : c.safe < c.danger}

InitAir ==
    /\ arg \in [pollutant : POLLUTANTS, observed : 0..MaxObserved,
                thresholds : ThresholdConfigs]
    /\ ret = Pending
    /\ AppInit({CityFile}, CityGeo)

ScorePollutant ==
    /\ ret = Pending
    /\ ret' = [fn |-> "pollutant",
               pollutant |-> arg.pollutant,
               risk  |-> PollutantRisk(arg.observed, arg.thresholds.safe,
                                       arg.thresholds.danger),
               score |-> PollutantScore(arg.observed, arg.thresholds.safe,
                                        arg.thresholds.danger)]
    /\ UNCHANGED <<arg, appVars>>

NextAir == ScorePollutant

SpecAir == InitAir /\ [][NextAir]_vars

\* C13: the per-pollutant score is
\* 100 * (1 - clamp((observed - safe) / (danger - safe), 0, 1)): 100 at or
\* below the safe bound, 0 at or above the danger bound, never rising when
\* the observed value rises and never outside [0, 100].
PollutantDone == ret # Pending /\ ret.fn = "pollutant"

CONFIDENCE_TIERS == <<"very_low", "low", "medium", "high">>

\* a ladder with the two upper labels exchanged
ConfidenceLevel_Swapped(postcode_count, cfg) ==
    IF postcode_count >= cfg.N_high THEN "medium"
    ELSE IF postcode_count >= cfg.N_medium THEN "high"
    ELSE IF postcode_count >= cfg.N_low THEN "low"
    ELSE "very_low"

ConfidenceLevel(postcode_count, cfg) ==
    IF postcode_count >= cfg.N_high THEN "high"
    ELSE IF postcode_count >= cfg.N_medium THEN "medium"
    ELSE IF postcode_count >= cfg.N_low THEN "low"
    ELSE "very_low"

ConfidenceResult(postcode_count, cfg) ==
    [level |-> ConfidenceLevel(postcode_count, cfg),
     postcode_count |-> postcode_count]

\* the record of one district: no postcode means no component could be
\* computed
ConfidenceRecord(district, postcode_count, cfg, scores) ==
    LET record == IF postcode_count = 0
                  THEN DistrictRecord(district, NULL, NULL, NULL)
                  ELSE DistrictRecord(district, scores.air, scores.noise,
                                      scores.greenspace)
    IN  [district |-> record.district,
         score_overall |-> record.score_overall,
         score_band |-> record.score_band,
         components |-> record.components,
         confidence |-> ConfidenceResult(postcode_count, cfg)]

MaxCount == 8

ConfidenceConfigs ==
    {c \in [N_low : 1..MaxCount, N_medium : 1..MaxCount, N_high : 1..MaxCount] :
        c.N_low < c.N_medium /\ c.N_medium < c.N_high}

ConfidenceScores ==
    [air : {0, Pts(50), Pts(100)}, noise : {Pts(20), Pts(100)},
     greenspace : {Pts(70)}]

InitConfidence ==
    /\ arg \in [postcode_count : 0..MaxCount, cfg : ConfidenceConfigs,
                scores : ConfidenceScores]
    /\ ret = Pending
    /\ AppInit({CityFile}, CityGeo)

EstimateConfidence ==
    /\ ret = Pending
    /\ ret' = [fn |-> "confidence",
               record |-> ConfidenceRecord("B1", arg.postcode_count, arg.cfg,
                                           arg.scores)]
    /\ UNCHANGED <<arg, appVars>>

NextConfidence == EstimateConfidence

SpecConfidence == InitConfidence /\ [][NextConfidence]_vars

\* C14: the confidence tier depends on postcode_count alone and is monotone
\* in it: a district with fewer postcodes never has a strictly higher tier
\* (very_low < low < medium < high), a count of 0 gives very_low, and no
\* other score values give the same district another tier.
TierRank(level) == CHOOSE i \in 1..Len(CONFIDENCE_TIERS) : CONFIDENCE_TIERS[i] = level

ConfidenceDone == ret # Pending /\ ret.fn = "confidence"

C14_ConfidenceMonotone ==
    ConfidenceDone =>
        LET tier == ret.record.confidence.level
        IN  /\ \E i \in 1..Len(CONFIDENCE_TIERS) : CONFIDENCE_TIERS[i] = tier
            /\ ret.record.confidence.postcode_count = arg.postcode_count
            /\ arg.postcode_count = 0 => tier = "very_low"
            /\ \A count2 \in 0..MaxCount, scores2 \in ConfidenceScores :
                   LET tier2 ==
                         ConfidenceRecord("B1", count2, arg.cfg, scores2).confidence.level
                   IN  /\ arg.postcode_count < count2
                           => TierRank(tier) <= TierRank(tier2)
                       /\ arg.postcode_count = count2 => tier = tier2

C14_Witness ==
    /\ ConfidenceDone
    /\ arg.postcode_count > 0
    /\ arg.postcode_count >= arg.cfg.N_medium
    /\ arg.postcode_count < arg.cfg.N_high
    /\ ret.record.confidence.level = "medium"
    /\ ret.record.score_overall # NULL

(***************************************************************************)
(* Radar chart rows of the what-if panel.                                  *)
(***************************************************************************)
radarData ==
    IF selectedData = NoRecord THEN <<>>
    ELSE << [metric  |-> "Air Quality",
             current |-> selectedData.components.air.score,
             whatif  |-> MathMin(Pts(100),
                                 JsAdd(selectedData.components.air.score,
                                       Pts(whatIf.air)))],
            [metric  |-> "Noise Levels",
             current |-> selectedData.components.noise.score,
             whatif  |-> MathMin(Pts(100),
                                 JsAdd(selectedData.components.noise.score,
                                       Pts(whatIf.noise)))],
            [metric  |-> "Green Space",
             current |-> selectedData.components.greenspace.score,
             whatif  |-> MathMin(Pts(100),
                                 JsAdd(selectedData.components.greenspace.score,
                                       Pts(whatIf.greenspace)))] >>

\* C15: for component scores in [0, 100] and slider deltas in -20..20, the
\* radar chart's projected value of each component equals the clamped
\* adjusted component score that whatIfScore uses, and lies in [0, 100].
C15_RadarMatchesProjection ==
    (WhatIfShown /\ AllComponentsScored
        /\ InPoints(AirScore) /\ InPoints(NoiseScore) /\ InPoints(GreenScore))
    => /\ Len(radarData) = 3
       /\ radarData[1].whatif = newAir
       /\ radarData[2].whatif = newNoise
       /\ radarData[3].whatif = newGreen
       /\ \A i \in 1..3 : InPoints(radarData[i].whatif)

\* C16: the dashboard shows the loading screen whenever loading is true, the
\* failure screen whenever loading is false and error is set, and district
\* content only when loading is false and error is null: never before the
\* current load has completed and never together with the failure message.
LoadCompleted == Len(runs) > 0 /\ runs[Len(runs)].pc = "done"

C16_ScreenFollowsLoad ==
    mounted =>
        /\ loading => Screen = "loading"
        /\ (~loading /\ error # NoError) => Screen = "failed"
        /\ Screen = "content" => (~loading /\ error = NoError /\ LoadCompleted)
        /\ ~LoadCompleted => Screen = "loading"
        /\ ContentShown <=> Screen = "content"

C16_Witness ==
    /\ mounted
    /\ Screen = "content"
    /\ Len(runs) = 2
    /\ runs[1].pc = "fetch"

\* C17: a load whose effect has been cleaned up never writes data, loading or
\* error afterwards; when the effect has run twice, the hook state is that of
\* the second load alone: untouched while the second load is pending,
\* whatever the first one did, and set by the second load's own outcome once
\* it settles.
FileItems == IF file.isArray THEN file.items ELSE <<>>

SecondLoadDecides ==
    (mounted /\ Len(runs) = 2) =>
        IF runs[2].pc # "done"
        THEN loading /\ error = NoError /\ data = <<>>
        ELSE /\ ~loading
             /\ \/ error = NoError /\ data = FileItems
                \/ error \in {NetworkError, HttpError, ParseError} /\ data = <<>>

CancelledLoadWritesNothing ==
    \A i \in 1..Len(runs) :
        (runs[i].cancelled /\ Len(runs') = Len(runs) /\ runs'[i].pc # runs[i].pc)
            => UNCHANGED <<data, loading, error>>

LiveLoadWritesItsOutcome ==
    \A i \in 1..Len(runs) :
        (~runs[i].cancelled /\ Len(runs') = Len(runs)
            /\ runs[i].pc # "done" /\ runs'[i].pc = "done")
        => /\ ~loading'
           /\ runs[i].pc = "fetch"
                => (error' \in {NetworkError, HttpError} /\ data' = data)
           /\ runs[i].pc = "json"
                => \/ error' = ParseError /\ data' = data
                   \/ error' = error /\ data' = FileItems

C17_OnlyLiveLoadWrites ==
    /\ []SecondLoadDecides
    /\ [][CancelledLoadWritesNothing /\ LiveLoadWritesItsOutcome]_vars

C17_Witness ==
    /\ mounted
    /\ Len(runs) = 2
    /\ runs[1].cancelled
    /\ runs[1].pc = "done"
    /\ runs[2].pc = "json"
    /\ loading
    /\ data = <<>>

(***************************************************************************)
(* useBaselineData under the assumption that every started fetch and JSON  *)
(* parse settles and that React runs the mount effect.                     *)
(***************************************************************************)
SpecHookFair ==
    InitHook /\ [][NextHook]_vars /\ WF_vars(RunEffect) /\ WF_vars(Settle)

\* C19: useBaselineData starts with loading = true, data = [] and
\* error = null; while the component stays mounted and its fetch and parse
\* settle, loading eventually becomes false; once false it never becomes
\* true again.
C19_LoadingSettlesOnce ==
    /\ [](runs = <<>> => (loading /\ data = <<>> /\ error = NoError))
    /\ <>(~mounted \/ ~loading)
    /\ [][~loading => ~loading']_vars

C19_Witness ==
    /\ mounted
    /\ ~loading
    /\ Len(runs) = 2
    /\ runs[1].pc = "json"
    /\ error = HttpError

(***************************************************************************)
(* useAnimatedNumber(value, duration): the effect that runs when value     *)
(* changes and the step callbacks it hands to requestAnimationFrame.  The  *)
(* clock counts AnimTicks ticks per duration; a callback whose start is    *)
(* still null holds elapsed = NotStarted.  The effect returns no cleanup,  *)
(* so callbacks of an earlier animation stay scheduled.                    *)
(***************************************************************************)
AnimTicks == 2

MaxPending == 2

NotStarted == 0 - 1

AnimValues == {NULL, NAN, Pts(20), Pts(80)}

\* const initial = display ?? 0
InitialOf(d) == IF IsNull(d) THEN 0 ELSE d

Cube(n) == n * n * n

\* initial + delta * eased, eased = 1 - (1 - progress)^3, progress = e / AnimTicks
EasedDisplay(cb, e) ==
    IF IsNaN(cb.initial) \/ IsNaN(cb.delta) THEN NAN
    ELSE cb.initial
           + (cb.delta * (Cube(AnimTicks) - Cube(AnimTicks - e))) \div Cube(AnimTicks)

\* the time a callback sees when the frame comes gap ticks after the last
Elapsed(cb, gap) ==
    IF cb.elapsed = NotStarted THEN 0
    ELSE IF cb.elapsed + gap >= AnimTicks THEN AnimTicks
    ELSE cb.elapsed + gap

\* the effect body for the value of the new render
AnimEffect(v) ==
    IF IsNull(v) \/ IsNaN(v)
    THEN /\ display' = v
         /\ UNCHANGED frames
    ELSE /\ frames' = Append(frames, [initial |-> InitialOf(display),
                                      delta   |-> JsSub(v, InitialOf(display)),
                                      elapsed |-> NotStarted])
         /\ UNCHANGED display

\* the parent renders with another value: the effect runs again
SetValue(v) ==
    /\ v # value
    /\ (IsNull(v) \/ IsNaN(v) \/ Len(frames) < MaxPending)
    /\ value' = v
    /\ AnimEffect(v)
    /\ UNCHANGED <<pureVars, inputVars, hookVars, dashVars>>

RECURSIVE Rescheduled(_, _)
Rescheduled(cbs, gap) ==
    IF cbs = <<>> THEN <<>>
    ELSE LET e == Elapsed(Head(cbs), gap)
         IN  (IF e < AnimTicks THEN <<[Head(cbs) EXCEPT !.elapsed = e]>> ELSE <<>>)
                 \o Rescheduled(Tail(cbs), gap)

\* one animation frame: every scheduled step callback runs in the order of
\* its registration, calls setDisplay and schedules itself again while
\* progress < 1
Frame(gap) ==
    /\ frames # <<>>
    /\ display' = EasedDisplay(frames[Len(frames)],
                               Elapsed(frames[Len(frames)], gap))
    /\ frames' = Rescheduled(frames, gap)
    /\ UNCHANGED <<pureVars, inputVars, hookVars, dashVars, value>>

InitAnim == PureIdle /\ AppInit({CityFile}, CityGeo)

NextAnim ==
    \/ \E v \in AnimValues : SetValue(v)
    \/ \E gap \in 1..AnimTicks : Frame(gap)

SpecAnim == InitAnim /\ [][NextAnim]_vars

\* C18: once the input value has stopped changing, the displayed value ends
\* up equal to the latest input value, also when that value is null or NaN
\* and arrives while an animation toward an earlier number is running: when
\* no step callback is left to run, display equals value.
C18_DisplaySettlesOnValue == frames = <<>> => display = value

\* C21: comparisonRows is empty when no record is selected; otherwise its
\* first row is the selected district's record, followed by the records of
\* compareIds in insertion order without the selected district: no district
\* appears twice, there are at most 5 rows, and a code without a loaded
\* record has no row.
Loaded(code) == \E i \in 1..Len(enrichedData) : enrichedData[i].district = code

LoadedOthers == SelectSeq(ComparedOthers, Loaded)

C21_ComparisonRows ==
    LET rows   == comparisonRows
        others == LoadedOthers
    IN  IF selectedData = NoRecord
        THEN rows = <<>>
        ELSE /\ Len(rows) = 1 + Len(others)
             /\ rows[1] = selectedData
             /\ \A i \in 1..Len(others) :
                    /\ rows[i + 1].district = others[i]
                    /\ rows[i + 1] = FindDistrict(enrichedData, others[i])
             /\ \A i, j \in 1..Len(rows) :
                    rows[i].district = rows[j].district => i = j
             /\ Len(rows) <= 5

C21_Witness ==
    /\ ComparisonShown
    /\ Includes(compareIds, selected)
    /\ Len(compareIds) = 4
    /\ Len(comparisonRows) = 4
    /\ compareIds[1] # selected
    /\ comparisonRows[2].district = compareIds[1]

\* C22: for a query that is empty or only whitespace, filteredDistricts is
\* the full record list sorted by district code; otherwise it is exactly the
\* sub-sequence of that sorted list whose text "district area_name
\* score_band" contains the trimmed query, compared case-insensitively, in
\* the same order.
C22_FilteredDistricts ==
    LET sorted == sortedDistricts
        result == filteredDistricts
        q      == toLowerCase(trim(Chars[search]))
        hits   == {i \in 1..Len(sorted) :
                      includes(toLowerCase(Joined(sorted[i].district,
                                                  sorted[i].area_name,
                                                  sorted[i].score_band)), q)}
        nth(k) == CHOOSE i \in hits : Cardinality({j \in hits : j <= i}) = k
    IN  /\ Len(sorted) = Len(enrichedData)
        /\ \A i \in 1..Len(enrichedData) :
               \E j \in 1..Len(sorted) : sorted[j] = enrichedData[i]
        /\ \A i \in 1..(Len(sorted) - 1) :
               ~LocaleLess(Chars[sorted[i + 1].district], Chars[sorted[i].district])
        /\ BlankQuery => result = sorted
        /\ ~BlankQuery =>
               /\ Len(result) = Cardinality(hits)
               /\ \A k \in 1..Len(result) : result[k] = sorted[nth(k)]

C22_Witness ==
    /\ ContentShown
    /\ search = " B1 "
    /\ Len(filteredDistricts) > 1
    /\ Len(filteredDistricts) < Len(sortedDistricts)
    /\ filteredDistricts[1].district = "B1"

(***************************************************************************)
(* City statistics: the hook loads any selection of the city file's        *)
(* records, in file order (among them files without a scored record).      *)
(***************************************************************************)
RowsAt(S) ==
    [k \in 1..Cardinality(S) |->
        CityFile.items[CHOOSE i \in S : Cardinality({j \in S : j <= i}) = k]]

StatsFiles == {ArrayPayload(RowsAt(S)) : S \in SUBSET (1..Len(CityFile.items))}

InitStats == PureIdle /\ AppInit(StatsFiles, CityGeo)

SpecStats == InitStats /\ [][NextHook]_vars

\* C23: cityStats is null exactly when no loaded record has a non-null
\* score_overall; otherwise avg is the arithmetic mean of the non-null
\* overall scores, best is a record with the maximum and worst a record with
\* the minimum of them, so worst.score_overall <= avg <= best.score_overall.
C23_CityStats ==
    LET stats == cityStats
    IN  /\ (stats = NoStats) <=> (Scored = {})
        /\ Scored # {} =>
            /\ stats.avg.den = Cardinality(Scored)
            /\ stats.avg.num = SumOfScores(Scored)
            /\ \E i \in Scored :
                   /\ stats.best = enrichedData[i]
                   /\ \A j \in Scored :
                          data[j].score_overall <= data[i].score_overall
            /\ \E i \in Scored :
                   /\ stats.worst = enrichedData[i]
                   /\ \A j \in Scored :
                          data[j].score_overall >= data[i].score_overall
            /\ stats.worst.score_overall * stats.avg.den <= stats.avg.num
            /\ stats.avg.num <= stats.best.score_overall * stats.avg.den

C23_Witness ==
    /\ ContentShown
    /\ Cardinality(Scored) >= 3
    /\ Unscored # {}
    /\ cityStats.best.district # data[1].district
    /\ cityStats.worst.district # cityStats.best.district
    /\ cityStats.worst.score_overall * cityStats.avg.den < cityStats.avg.num

(***************************************************************************)
(* getColor applied to each probe score.                                   *)
(***************************************************************************)
Colour ==
    /\ ret = Pending
    /\ ret' = [fn |-> "getColor", color |-> getColor(arg)]
    /\ UNCHANGED <<arg, appVars>>

NextColour == Colour

SpecColour == InitBand /\ [][NextColour]_vars

\* C24: getColor clamps the score to [0, 100] and maps it linearly to a hue
\* in [0, 120]: the hue never falls when the score rises, a score outside
\* [0, 100] gets the colour of the nearest bound, and a null or NaN score
\* gets the fixed fill #020617 instead of a gradient colour.
Coloured == ret # Pending /\ ret.fn = "getColor"

Degrees(h) == h * 100 * Scale

C24_GetColor ==
    Coloured =>
        IF ~IsNumber(arg)
        THEN ret.color = [fill |-> "#020617"]
        ELSE /\ DOMAIN ret.color = {"hue"}
             /\ ret.color.hue >= Degrees(0)
             /\ ret.color.hue <= Degrees(120)
             /\ (arg >= 0 /\ arg <= Pts(100))
                    => ret.color.hue * Pts(100) = arg * Degrees(120)
             /\ arg < 0 => ret.color.hue = Degrees(0)
             /\ arg > Pts(100) => ret.color.hue = Degrees(120)
             /\ \A other \in ProbeScores :
                    (IsNumber(other) /\ other >= arg)
                        => getColor(other).hue >= ret.color.hue

C24_Witness ==
    /\ Coloured
    /\ arg > Pts(100)
    /\ ret.color.hue = Degrees(120)

(***************************************************************************)
(* The dashboard over a two-district baseline with every control: map,     *)
(* search, view mode, what-if sliders and comparison picker.               *)
(***************************************************************************)
ControlFile == ArrayPayload(RowsAt({1, 2}))

ControlGeo == {CityFile.items[1].district, CityFile.items[2].district, "B99"}

\* the two ends of a what-if slider
SliderEnds == {0 - 20, 20}

InitControls == PureIdle /\ AppInit({ControlFile}, ControlGeo)

NextControls ==
    \/ NextHook
    \/ \E postcode \in geo : MapClick(postcode)
    \/ \E i \in 1..Len(filteredDistricts) : SearchPick(filteredDistricts[i])
    \/ SetSearch("b1")
    \/ \E i \in 1..Len(MODES) : SetMode(MODES[i])
    \/ ToggleWhatIf
    \/ ToggleComparison
    \/ \E key \in {"air", "noise", "greenspace"}, v \in SliderEnds :
            SetWhatIf(key, v)
    \/ ResetAll
    \/ \E i \in 1..Len(data) : ToggleCompare(data[i].district)

SpecControls == InitControls /\ [][NextControls]_vars

\* C25: a change of the selected district (map click or search pick) leaves
\* the slider deltas, compareIds and the view mode unchanged; a change of
\* the view mode leaves the selection, the deltas and compareIds unchanged;
\* "Reset All" sets the three deltas to 0 and changes nothing else.
SelectionStep == selected' # selected

ModeStep == mode' # mode

C25_FrameEffects ==
    [][/\ SelectionStep => UNCHANGED <<whatIf, compareIds, mode>>
       /\ ModeStep => UNCHANGED <<selected, whatIf, compareIds>>
       /\ ResetAll =>
            /\ whatIf'.air = 0 /\ whatIf'.noise = 0 /\ whatIf'.greenspace = 0
            /\ UNCHANGED <<selected, mode, compareIds, search, showWhatIf,
                           showComparison, hookVars, inputVars>>]_vars

C25_Witness ==
    /\ ContentShown
    /\ Includes(compareIds, selected)
    /\ whatIf.air < 0
    /\ whatIf.noise > 0
    /\ mode = "noise"
    /\ search = ""

(***************************************************************************)
(* PollutantCard and NoiseCard of the detail panel: the status that picks  *)
(* the colour class and the text of the value.                             *)
(***************************************************************************)
PollutantCard(val, threshold) ==
    [status |-> IF JsLT(val, Pts(threshold) \div 2) THEN "good"
                ELSE IF JsLT(val, (Pts(threshold) * 3) \div 4) THEN "moderate"
                ELSE "poor",
     text |-> format(val, 2)]

NoiseCard(val) ==
    [status |-> IF JsLT(val, Pts(50)) THEN "low"
                ELSE IF JsLT(val, Pts(60)) THEN "moderate"
                ELSE "high",
     text |-> format(val, 1)]

\* the threshold that the detail panel hands to each pollutant card
POLLUTANT_LIMITS == [no2_ug_m3 |-> 40, pm10_ug_m3 |-> 40, pm25_ug_m3 |-> 10]

NoiseFields == {"mean_lden_db", "mean_lnight_db"}

MaxLevel == 70

CardValues == {NULL, NAN} \cup {Pts(v) : v \in 0..MaxLevel}

InitCards ==
    /\ arg \in [field : DOMAIN POLLUTANT_LIMITS \cup NoiseFields,
                value : CardValues]
    /\ ret = Pending
    /\ AppInit({CityFile}, CityGeo)

RenderCard ==
    /\ ret = Pending
    /\ ret' = [fn |-> "card",
               card |-> IF arg.field \in NoiseFields
                        THEN NoiseCard(arg.value)
                        ELSE PollutantCard(arg.value, POLLUTANT_LIMITS[arg.field])]
    /\ UNCHANGED <<arg, appVars>>

NextCards == RenderCard

SpecCards == InitCards /\ [][NextCards]_vars

\* C26: a null pollutant concentration or noise level is shown as unknown
\* and is not classified: PollutantCard never gives a null value the status
\* "good" and NoiseCard never gives a null value the status "low".
C26_NullNotClassified ==
    (ret # Pending /\ ret.fn = "card" /\ IsNull(arg.value)) =>
        /\ ret.card.text = Dash
        /\ ret.card.status \notin {"good", "low"}

====
